---- MODULE Spec2Model ----
(***************************************************************************)
(* Session coordinator of the Mafia game server: the game engine           *)
(* (GameEngine: startGame, distributeRoles, handleAction, phase            *)
(* resolution, win evaluation, endGame, phase timers) and the connection / *)
(* room registry (WebSocketHandler: login, createRoom, joinRoom,           *)
(* leaveRoom, disconnect).                                                 *)
(*                                                                         *)
(* JavaScript runs one handler at a time; a handler gives up control only  *)
(* at an `await` whose promise is settled by I/O (the sqlite calls of      *)
(* Database).  Every action below is therefore one run-to-suspension       *)
(* segment of a handler or of a timer callback.                            *)
(***************************************************************************)
EXTENDS Integers, Sequences, FiniteSets, Bags, TLC

VARIABLES
    rooms,      \* room objects by id; .registered = present in WebSocketHandler.rooms
    games,      \* game objects by id (still referenced by a room, a timer or a call)
    gamesMap,   \* GameEngine.games: roomId -> game id
    chains,     \* bag of engine calls suspended at an awaited persistence call
    nextGame,   \* id of the next game object to be created
    last,       \* ghost: what the last engine step was given and what it resolved
    connState,  \* each WebSocket: "idle" (not yet accepted), "open", "closing", "closed"
    users,      \* WebSocketHandler.users: ws -> user record
    usersByNickname,    \* WebSocketHandler.usersByNickname: nickname -> ws
    tasks,      \* bag of message handlers suspended at an awaited persistence call
    nextRoom,   \* id of the next room to be created (uuidv4 yields fresh ids)
    sent,       \* bag of the events the last step delivered to open sockets
    dr,         \* harness of distributeRoles: its arguments and its result
    we          \* harness of the win evaluation: roles, alive flags, verdict

engineVars == <<rooms, games, gamesMap, chains, nextGame, last>>
regVars == <<connState, users, usersByNickname, tasks, nextRoom, sent>>
harnessVars == <<dr, we>>
vars == <<rooms, games, gamesMap, chains, nextGame, last,
          connState, users, usersByNickname, tasks, nextRoom, sent, dr, we>>

----------------------------------------------------------------------------
(* Bounds of the model *)

MaxRoster == 12     \* largest playerCount handed to distributeRoles
RandDen == 2        \* Math.random() yields k / RandDen, k in 0 .. RandDen-1
MaxWinRoster == 6   \* largest roster of the win-evaluation harness
NightTime == 2      \* seconds of a night (60 in the source), scaled down
DayTime == 3        \* seconds of a day (120 in the source), scaled down
MaxDay == 2         \* cap of the day counter
MaxChains == 2      \* cap of the engine calls suspended at once
MaxTasks == 1       \* cap of the message handlers suspended at once
MaxRooms == 1       \* cap of the rooms created in a run
MaxStamp == 4       \* cap of the clock readings of one phase
LobbyTasks == 2     \* cap of the suspended handlers of a lobby run
LobbyRooms == 2     \* cap of the rooms created in a lobby run
MaxRetry == 1       \* resolutions of one phase instance up to which the store fails

(* Program constants *)

MinRoster == 4      \* minPlayers default of a room
DefaultMaxPlayers == 10     \* maxPlayers default of a room

NULL == "null"

----------------------------------------------------------------------------
(* distributeRoles *)

RandomDraws == 0 .. (RandDen - 1)

Repeat(x, n) == [k \in 1 .. n |-> x]

Max0(n) == IF n > 0 THEN n ELSE 0

\* A variant of the role list whose loop pushes mafiaCount "mafia" entries
\* (for (i = 0; ...)) instead of mafiaCount - 1.
BuildRolesOffByOne(playerCount, roleSettings) ==
    LET mafiaCount == playerCount \div 3
        fixed == <<"don">> \o Repeat("mafia", Max0(mafiaCount))
                 \o (IF roleSettings.doctor /\ playerCount >= 5 THEN <<"doctor">> ELSE <<>>)
                 \o (IF roleSettings.lovers /\ playerCount >= 6 THEN <<"lover1", "lover2">> ELSE <<>>)
    IN  fixed \o Repeat("citizen", Max0(playerCount - Len(fixed)))

\* Lines 47-72: the role list before shuffling.
BuildRoles(playerCount, roleSettings) ==
    LET mafiaCount == playerCount \div 3
        fixed == <<"don">> \o Repeat("mafia", Max0(mafiaCount - 1))
                 \o (IF roleSettings.doctor /\ playerCount >= 5 THEN <<"doctor">> ELSE <<>>)
                 \o (IF roleSettings.lovers /\ playerCount >= 6 THEN <<"lover1", "lover2">> ELSE <<>>)
    IN  fixed \o Repeat("citizen", Max0(playerCount - Len(fixed)))

\* A variant of the swap that copies roles[j] to roles[i] and drops roles[i].
SwapOverwrite(s, a, b) == [s EXCEPT ![a] = s[b]]

\* [roles[i], roles[j]] = [roles[j], roles[i]]
Swap(s, a, b) == [s EXCEPT ![a] = s[b], ![b] = s[a]]

\* Lines 75-78: for (i = length-1; i > 0; i--) { j = floor(random * (i+1)); swap }
\* i is the 0-based index of the source; rnd[i] is the draw of iteration i.
RECURSIVE ShuffleFrom(_, _, _)
ShuffleFrom(roles, i, rnd) ==
    IF i <= 0 THEN roles
    ELSE LET j == (rnd[i] * (i + 1)) \div RandDen
         IN  ShuffleFrom(Swap(roles, i + 1, j + 1), i - 1, rnd)

distributeRoles(playerCount, roleSettings, rnd) ==
    LET roles == BuildRoles(playerCount, roleSettings)
    IN  ShuffleFrom(roles, Len(roles) - 1, rnd)

RoleSettings == [doctor : BOOLEAN, lovers : BOOLEAN]

Draws(playerCount) == [1 .. (playerCount - 1) -> RandomDraws]

CountRole(roles, r) == Cardinality({k \in 1 .. Len(roles) : roles[k] = r})

----------------------------------------------------------------------------
(* Win evaluation: lines 238-248 of checkWinConditions. *)

MafiaRoles == {"mafia", "don"}
TownRoles == {"citizen", "doctor"}

\* A variant of the win evaluation in which a tie is not a mafia win.
WinnerStrict(players, roleOf, aliveOf) ==
    LET alivePlayers == {p \in players : aliveOf[p]}
        aliveMafia == {p \in alivePlayers : roleOf[p] \in MafiaRoles}
        aliveCitizens == {p \in alivePlayers : roleOf[p] \in TownRoles}
    IN  IF Cardinality(aliveMafia) = 0 THEN "citizens"
        ELSE IF Cardinality(aliveMafia) > Cardinality(aliveCitizens) THEN "mafia"
        ELSE NULL

\* roleOf, aliveOf: player -> role / isAlive, over the game's players
Winner(players, roleOf, aliveOf) ==
    LET alivePlayers == {p \in players : aliveOf[p]}
        aliveMafia == {p \in alivePlayers : roleOf[p] \in MafiaRoles}
        aliveCitizens == {p \in alivePlayers : roleOf[p] \in TownRoles}
    IN  IF Cardinality(aliveMafia) = 0 THEN "citizens"
        ELSE IF Cardinality(aliveMafia) >= Cardinality(aliveCitizens) THEN "mafia"
        ELSE NULL

DrIdle == [n |-> 0, settings |-> [doctor |-> FALSE, lovers |-> FALSE], roles |-> <<>>, done |-> FALSE]
WeIdle == [roles |-> <<>>, alive |-> {}, winner |-> NULL, evaluated |-> FALSE]

----------------------------------------------------------------------------
(* The game engine.  Its synchronous code is written as operators on a     *)
(* world W = [rooms, games, gamesMap, chains]; an action applies one       *)
(* run-to-suspension segment to the current world.                         *)

Players == {"a", "b", "c", "d", "e", "f", "g", "h", "i"}    \* the identities of the store
GameIds == {1}                      \* ids of the game objects of a run

\* Clients submit the verb of the phase they see.
VerbOf(phase) == IF phase = "night" THEN "kill" ELSE "vote"
Targets == {"a", "b"}               \* action targets submitted by clients
Outsiders == {"z"}                  \* a sender that is in no game

Conns == {"wa", "wb", "wc", "wd"}   \* the WebSocket connections of a run

NoObj == [role |-> NULL, isAlive |-> TRUE]

\* roomData.roles || { doctor: true, don: true, lovers: false }
DefaultRoles == [doctor |-> TRUE, lovers |-> FALSE]

\* Ghost of a step: the number of entries it pushed to game.gameLog, and the
\* phase resolution it ran with what that resolution read (pending actions,
\* living players, day counter).
NoRes == [kind |-> "none", g |-> 0, actions |-> <<>>, alive |-> {}, day |-> 0]
\* Ghost of a step of endGame: the updateUserStats / updateUserCoins calls it
\* issued for game g, one row per player.
NoPay == [g |-> 0, winner |-> NULL, rows |-> <<>>]
NoLast == [logged |-> 0, res |-> NoRes, pay |-> NoPay]

World == [rooms |-> rooms, games |-> games, gamesMap |-> gamesMap, chains |-> chains,
          last |-> NoLast]

\* this.rooms?.get(roomId) with a non-null room.game
Live(W, roomId) ==
    /\ roomId \in DOMAIN W.rooms
    /\ W.rooms[roomId].registered
    /\ W.rooms[roomId].game # 0

SeqToSet(s) == {s[k] : k \in 1 .. Len(s)}

\* game.players.find((p) => p.nickname === n)?.role
RoleIn(W, g, n) ==
    IF n \in SeqToSet(W.games[g].players)
    THEN W.rooms[W.games[g].roomId].obj[n].role
    ELSE NULL

AliveIn(W, g, n) ==
    /\ n \in SeqToSet(W.games[g].players)
    /\ W.rooms[W.games[g].roomId].obj[n].isAlive

\* Ghost: the phase instance a game is in.
Instance(gm) == <<gm.phase, gm.day>>

Bump(f, x) == [y \in DOMAIN f \cup {x} |-> IF y = x THEN (IF x \in DOMAIN f THEN f[x] + 1 ELSE 1) ELSE f[y]]

\* A variant of startPhaseTimer that starts no interval.
startPhaseTimerNone(W, roomId) == W

\* startPhaseTimer: a new interval closed over room.game; game.timer is
\* overwritten and the interval it held keeps running.
startPhaseTimer(W, roomId) ==
    IF ~Live(W, roomId) THEN W
    ELSE [W EXCEPT !.games[W.rooms[roomId].game].timers = @ + 1]

\* endGame up to its first await: the first player's updateUserStats.
\* kind names the resolution that awaits it ("night" or "day").
endGame(W, roomId, winner, kind) ==
    IF ~Live(W, roomId) THEN W
    ELSE LET g == W.rooms[roomId].game
         IN  [W EXCEPT !.games[g].decided = winner,
                       !.chains = @ (+) SetToBag({[op |-> kind, roomId |-> roomId, g |-> g,
                                                   winner |-> winner, at |-> "updates"]})]

\* checkWinConditions: the winner, or NULL (the call returns false).
checkWinConditions(W, roomId) ==
    IF ~Live(W, roomId) THEN NULL
    ELSE LET g == W.rooms[roomId].game
             obj == W.rooms[roomId].obj
         IN  Winner(SeqToSet(W.games[g].players),
                    [p \in Players |-> obj[p].role], [p \in Players |-> obj[p].isAlive])

\* Lines 139-144: the kill entries of mafia-type players, in Map order.
MafiaKills(W, g, actions) ==
    SelectSeq(actions, LAMBDA a : a.action = "kill" /\ RoleIn(W, g, a.player) \in MafiaRoles)

\* A variant of the heal filter that takes no heal into account.
DoctorHealsNone(W, g, actions) == <<>>

\* Lines 147-150: the heal entries of doctors, in Map order.
DoctorHeals(W, g, actions) ==
    SelectSeq(actions, LAMBDA a : a.action = "heal" /\ RoleIn(W, g, a.player) = "doctor")

\* Ghost: the living players of game g.
AliveSet(W, g) == {p \in SeqToSet(W.games[g].players) : AliveIn(W, g, p)}

Resolution(W, g, kind) ==
    [kind |-> kind, g |-> g, actions |-> W.games[g].actions, alive |-> AliveSet(W, g),
     day |-> W.games[g].day]

\* A variant of the elimination that flips the flag instead of clearing it.
MarkDeadFlip(obj, n) == [obj EXCEPT ![n].isAlive = ~@]

\* Lines 161 and 210: the chosen player's isAlive becomes false.
MarkDead(obj, n) == [obj EXCEPT ![n].isAlive = FALSE]

processNightActions(W, roomId) ==
    IF ~Live(W, roomId) THEN W
    ELSE LET g == W.rooms[roomId].game
             game == W.games[g]
             actions == game.actions
             mafiaKills == MafiaKills(W, g, actions)
             doctorHeals == DoctorHeals(W, g, actions)
             targetNickname == IF Len(mafiaKills) > 0 THEN mafiaKills[1].target ELSE NULL
             isHealed == \E k \in 1 .. Len(doctorHeals) : doctorHeals[k].target = targetNickname
             killedPlayer == IF /\ Len(mafiaKills) > 0
                                /\ ~isHealed
                                /\ targetNickname \in SeqToSet(game.players)
                             THEN targetNickname ELSE NULL
             W1 == [W EXCEPT
                      !.last.res = Resolution(W, g, "night"),
                      !.rooms[roomId].obj = IF killedPlayer # NULL
                                            THEN MarkDead(@, killedPlayer)
                                            ELSE @,
                      !.games[g] = [@ EXCEPT
                          !.resolved = Bump(@, Instance(game)),
                          !.phase = "day",
                          !.timeLeft = DayTime,
                          !.actions = <<>>,
                          !.lastAction = IF killedPlayer # NULL
                                         THEN <<"killed", killedPlayer>>
                                         ELSE <<"calm">>]]
             winner == checkWinConditions(W1, roomId)
         IN  IF winner # NULL
             THEN endGame(W1, roomId, winner, "night")
             ELSE startPhaseTimer(W1, roomId)

\* Lines 186-193: votes[target] counts, keys in order of first insertion.
RECURSIVE TallyKeys(_, _, _)
TallyKeys(actions, k, keys) ==
    IF k > Len(actions) THEN keys
    ELSE LET a == actions[k]
         IN  IF a.action = "vote" /\ a.target # NULL /\ a.target \notin SeqToSet(keys)
             THEN TallyKeys(actions, k + 1, Append(keys, a.target))
             ELSE TallyKeys(actions, k + 1, keys)

VoteCount(actions, t) ==
    Cardinality({k \in 1 .. Len(actions) : actions[k].action = "vote" /\ actions[k].target = t})

\* A variant of the scan in which a later key with an equal count wins.
RECURSIVE PickVotedOutLast(_, _, _, _, _)
PickVotedOutLast(actions, keys, k, maxVotes, votedOut) ==
    IF k > Len(keys) THEN votedOut
    ELSE IF VoteCount(actions, keys[k]) >= maxVotes
         THEN PickVotedOutLast(actions, keys, k + 1, VoteCount(actions, keys[k]), keys[k])
         ELSE PickVotedOutLast(actions, keys, k + 1, maxVotes, votedOut)

\* Lines 196-204: the first key whose count exceeds every count before it.
RECURSIVE PickVotedOut(_, _, _, _, _)
PickVotedOut(actions, keys, k, maxVotes, votedOut) ==
    IF k > Len(keys) THEN votedOut
    ELSE IF VoteCount(actions, keys[k]) > maxVotes
         THEN PickVotedOut(actions, keys, k + 1, VoteCount(actions, keys[k]), keys[k])
         ELSE PickVotedOut(actions, keys, k + 1, maxVotes, votedOut)

VotedOut(actions) == PickVotedOut(actions, TallyKeys(actions, 1, <<>>), 1, 0, NULL)

\* A variant of the transition to Night that keeps the day counter.
ToNightSameDay(game) ==
    [game EXCEPT !.phase = "night", !.timeLeft = NightTime, !.actions = <<>>]

\* Lines 224-227: the transition to Night.
ToNight(game) ==
    [game EXCEPT !.phase = "night", !.day = @ + 1, !.timeLeft = NightTime, !.actions = <<>>]

processDayVoting(W, roomId) ==
    IF ~Live(W, roomId) THEN W
    ELSE LET g == W.rooms[roomId].game
             game == W.games[g]
             votedOut == VotedOut(game.actions)
             found == votedOut # NULL /\ votedOut \in SeqToSet(game.players)
             W1 == [W EXCEPT
                      !.last.res = Resolution(W, g, "day"),
                      !.rooms[roomId].obj = IF found
                                            THEN MarkDead(@, votedOut)
                                            ELSE @,
                      !.games[g] = [@ EXCEPT
                          !.resolved = Bump(@, Instance(game)),
                          !.lastAction = IF found THEN <<"voted", votedOut>>
                                         ELSE IF votedOut # NULL THEN @
                                         ELSE <<"nobody">>]]
             winner == checkWinConditions(W1, roomId)
         IN  IF winner # NULL
             THEN endGame(W1, roomId, winner, "day")
             ELSE LET W2 == [W1 EXCEPT !.games[g] = ToNight(@)]
                  IN  startPhaseTimer(W2, roomId)

\* A variant of checkPhaseCompletion that leaves every phase to its countdown.
checkPhaseCompletionNever(W, roomId) == W

checkPhaseCompletion(W, roomId) ==
    IF ~Live(W, roomId) THEN W
    ELSE LET g == W.rooms[roomId].game
             game == W.games[g]
             alivePlayers == {p \in SeqToSet(game.players) : AliveIn(W, g, p)}
             acted == {game.actions[k].player : k \in 1 .. Len(game.actions)}
         IN  IF game.phase = "night"
             THEN LET aliveMafia == {p \in alivePlayers : RoleIn(W, g, p) \in MafiaRoles}
                  IN  IF Cardinality(aliveMafia \cap acted) = Cardinality(aliveMafia)
                      THEN processNightActions(W, roomId)
                      ELSE W
             ELSE IF game.phase = "day"
             THEN LET votes == {k \in 1 .. Len(game.actions) : game.actions[k].action = "vote"}
                  IN  IF Cardinality(votes) = Cardinality(alivePlayers)
                      THEN processDayVoting(W, roomId)
                      ELSE W
             ELSE W

\* A variant of the Map in which a second set of a key adds a second entry.
MapSetAppend(actions, entry) == Append(actions, entry)

\* game.actions.set(nickname, ...): a Map keeps the position of an existing key.
MapSet(actions, entry) ==
    IF \E k \in 1 .. Len(actions) : actions[k].player = entry.player
    THEN [k \in 1 .. Len(actions) |->
            IF actions[k].player = entry.player THEN entry ELSE actions[k]]
    ELSE Append(actions, entry)

\* handleAction(room, playerNickname, action, target).  game.gameLog is only
\* appended to here and handed to database.endGame; of it the ghost keeps the
\* number of entries a call pushes.
\* now: the value of Date.now() at the call.
handleAction(W, roomId, playerNickname, action, target, now) ==
    LET g == W.rooms[roomId].game
    IN  IF g = 0 THEN W
        ELSE IF ~AliveIn(W, g, playerNickname) THEN W
        ELSE LET W1 == [W EXCEPT
                          !.last.logged = @ + 1,
                          !.games[g] = [@ EXCEPT
                            !.actions = MapSet(@, [player |-> playerNickname,
                                                   action |-> action, target |-> target,
                                                   timestamp |-> now])]]
             IN  checkPhaseCompletion(W1, roomId)

\* The interval callback of a timer closed over game g (lines 309-321).
timerCallback(W, g) ==
    LET roomId == W.games[g].roomId
        W1 == [W EXCEPT !.games[g].timeLeft = @ - 1]
    IN  IF W1.games[g].timeLeft <= 0
        THEN LET W2 == [W1 EXCEPT !.games[g].timers = @ - 1]
             IN  IF W2.games[g].phase = "night" THEN processNightActions(W2, roomId)
                 ELSE IF W2.games[g].phase = "day" THEN processDayVoting(W2, roomId)
                 ELSE W2
        ELSE W1

\* startGame after `await database.startGame`: lines 13-43.
startGameResume(W, c, gid, rnd) ==
    LET roomId == c.roomId
        room == W.rooms[roomId]
        roles == distributeRoles(Len(c.players), room.roles, rnd)
        obj1 == [n \in Players |->
                   IF \E k \in 1 .. Len(c.players) : c.players[k] = n
                   THEN [role |-> roles[CHOOSE k \in 1 .. Len(c.players) : c.players[k] = n],
                         isAlive |-> TRUE]
                   ELSE room.obj[n]]
        game == [roomId |-> roomId, players |-> c.players, phase |-> "night", day |-> 1,
                 timeLeft |-> NightTime, actions |-> <<>>, lastAction |-> <<>>,
                 timers |-> 0,
                 resolved |-> <<>>, decided |-> NULL, ended |-> FALSE]
        W1 == [rooms |-> [W.rooms EXCEPT ![roomId] = [@ EXCEPT !.obj = obj1, !.game = gid,
                                                               !.status = "playing"]],
               games |-> [x \in DOMAIN W.games \cup {gid} |->
                            IF x = gid THEN game ELSE W.games[x]],
               gamesMap |-> [x \in DOMAIN W.gamesMap \cup {roomId} |->
                               IF x = roomId THEN gid ELSE W.gamesMap[x]],
               chains |-> W.chains (-) SetToBag({c}),
               last |-> W.last]
    IN  startPhaseTimer(W1, roomId)

\* Lines 266-268: whether the player's side is the winner.
Won(winner, role) ==
    \/ winner = "citizens" /\ role \in {"citizen", "doctor"}
    \/ winner = "mafia" /\ role \in {"mafia", "don"}

\* A variant of the reward that pays every winner alike.
coinRewardFlat(won, survived) == IF won THEN 7 ELSE -5

\* Lines 273-280: the coin reward of a player.
coinReward(won, survived) ==
    IF won /\ survived THEN 7
    ELSE IF won THEN 3
    ELSE -5

\* Lines 265-287: the loop over game.players; each row holds the arguments of
\* updateUserStats(nickname, won, survived) and updateUserCoins(nickname,
\* coinReward).
Payments(W, c) ==
    [g |-> c.g, winner |-> c.winner,
     rows |-> [k \in 1 .. Len(W.games[c.g].players) |->
                 LET nickname == W.games[c.g].players[k]
                     won == Won(c.winner, RoleIn(W, c.g, nickname))
                     survived == AliveIn(W, c.g, nickname)
                 IN  [nickname |-> nickname, won |-> won, survived |-> survived,
                      coins |-> coinReward(won, survived)]]]

\* A variant of endGame that resets room.status and keeps room.game.
endGameStatusOnly(W, c) ==
    LET W0 == [W EXCEPT !.chains = @ (-) SetToBag({c})]
    IN  IF c.at = "updates"
        THEN [W0 EXCEPT !.rooms[c.roomId].status = "waiting",
                        !.games[c.g].ended = TRUE,
                        !.chains = @ (+) SetToBag({[c EXCEPT !.at = "dbEnd"]})]
        ELSE LET W1 == [W0 EXCEPT
                          !.gamesMap = [x \in DOMAIN @ \ {c.roomId} |-> @[x]],
                          !.games[c.g].lastAction = <<"over", c.winner>>]
             IN  IF c.op = "night" THEN startPhaseTimer(W1, c.roomId) ELSE W1

\* endGame resumed after an await (lines 265-300), and the return into the
\* resolution that awaited it.  at = "updates": the awaited updateUserStats /
\* updateUserCoins calls of the loop over game.players, which only reads the
\* players between its awaits and is one suspension here; at = "dbEnd": the
\* awaited database.endGame.
endGameResume(W, c) ==
    LET W0 == [W EXCEPT !.chains = @ (-) SetToBag({c})]
    IN  IF c.at = "updates"
        THEN [W0 EXCEPT !.rooms[c.roomId].status = "waiting",
                        !.rooms[c.roomId].game = 0,
                        !.games[c.g].ended = TRUE,
                        !.last.pay = Payments(W, c),
                        !.chains = @ (+) SetToBag({[c EXCEPT !.at = "dbEnd"]})]
        ELSE LET W1 == [W0 EXCEPT
                          !.gamesMap = [x \in DOMAIN @ \ {c.roomId} |-> @[x]],
                          !.games[c.g].lastAction = <<"over", c.winner>>]
             IN  IF c.op = "night" THEN startPhaseTimer(W1, c.roomId) ELSE W1

\* A game object no room, timer or suspended call refers to is garbage.
Referenced(W, g) ==
    \/ \E r \in DOMAIN W.rooms : W.rooms[r].game = g
    \/ W.games[g].timers > 0
    \/ \E c \in BagToSet(W.chains) : c.op # "start" /\ c.g = g

Collect(W) ==
    [W EXCEPT !.games = [g \in {x \in DOMAIN W.games : Referenced(W, x)} |-> W.games[g]]]

\* The bounds that cap the counters of a run.
WithinBounds(W) ==
    /\ \A g \in DOMAIN W.games : W.games[g].day <= MaxDay
    /\ BagCardinality(W.chains) <= MaxChains

Commit(W) ==
    \E C \in {Collect(W)} :
        /\ WithinBounds(C)
        /\ rooms' = C.rooms
        /\ games' = C.games
        /\ gamesMap' = C.gamesMap
        /\ chains' = C.chains
        /\ last' = C.last

----------------------------------------------------------------------------
(* Actions of the engine *)

\* engine.startGame(room, database) up to `await database.startGame` (lines 7-11).
\* Its caller is not part of the sources; it is taken to start a game only in
\* a registered room that waits, has no game and holds at least minPlayers.
StartGame(roomId) ==
    /\ roomId \in DOMAIN rooms
    /\ rooms[roomId].registered
    /\ rooms[roomId].status = "waiting"
    /\ rooms[roomId].game = 0
    /\ Len(rooms[roomId].players) >= MinRoster
    /\ ~\E c \in BagToSet(chains) : c.op = "start" /\ c.roomId = roomId
    /\ nextGame \in GameIds
    /\ Commit([World EXCEPT !.chains = @ (+) SetToBag({[op |-> "start", roomId |-> roomId,
               players |-> [k \in 1 .. Len(rooms[roomId].players) |->
                              rooms[roomId].players[k].nickname]]})])
    /\ UNCHANGED <<nextGame, regVars, harnessVars>>

StartGameResume ==
    \E c \in BagToSet(chains) :
        /\ c.op = "start"
        /\ \E rnd \in Draws(Len(c.players)) :
              Commit(startGameResume(World, c, nextGame, rnd))
        /\ nextGame' = nextGame + 1
        /\ UNCHANGED <<regVars, harnessVars>>

\* A gameAction message: handleGameAction (websocket-handler.js 423-436) hands
\* it to the engine when the sender's room has a game.  The senders are the
\* players of the game and one identity that is not among them; the clock
\* does not advance between the messages of a phase.
\* InRoom: the test of lines 424-427, user.currentRoom names the room.
InRoom(n, roomId) ==
    \E ws \in DOMAIN users : users[ws].nickname = n /\ users[ws].currentRoom = roomId

HandleAction(roomId) ==
    /\ roomId \in DOMAIN rooms
    /\ rooms[roomId].registered
    /\ rooms[roomId].game # 0
    /\ \E n \in SeqToSet(games[rooms[roomId].game].players) \cup Outsiders, target \in Targets :
          /\ n \in Outsiders \/ InRoom(n, roomId)
          /\ Commit(handleAction(World, roomId, n,
                                 VerbOf(games[rooms[roomId].game].phase), target, 0))
    /\ UNCHANGED <<nextGame, regVars, harnessVars>>

TimerTick ==
    \E g \in DOMAIN games :
        /\ games[g].timers > 0
        /\ Commit(timerCallback(World, g))
        /\ UNCHANGED <<nextGame, regVars, harnessVars>>

EndGameResume ==
    \E c \in BagToSet(chains) :
        /\ c.op # "start"
        /\ Commit(endGameResume(World, c))
        /\ UNCHANGED <<nextGame, regVars, harnessVars>>

\* One room whose roster holds the four identities, as createRoom and three
\* joinRoom calls leave it.
GameRoom ==
    [registered |-> TRUE, status |-> "waiting", creator |-> "a",
     players |-> << [nickname |-> "a", isCreator |-> TRUE], [nickname |-> "b", isCreator |-> FALSE],
                    [nickname |-> "c", isCreator |-> FALSE], [nickname |-> "d", isCreator |-> FALSE] >>,
     obj |-> [n \in Players |-> NoObj],
     roles |-> DefaultRoles, maxPlayers |-> DefaultMaxPlayers, password |-> NULL,
     name |-> "r", row |-> TRUE,
     game |-> 0]

\* The four sockets that logged in as the four identities and entered the room.
GameConn == ("a" :> "wa") @@ ("b" :> "wb") @@ ("c" :> "wc") @@ ("d" :> "wd")

InitGame ==
    /\ rooms = <<GameRoom>>
    /\ games = <<>>
    /\ gamesMap = <<>>
    /\ chains = EmptyBag
    /\ nextGame = 1
    /\ last = NoLast
    /\ connState = [c \in Conns |-> "open"]
    /\ users = [c \in Conns |->
                  [nickname |-> CHOOSE n \in DOMAIN GameConn : GameConn[n] = c, currentRoom |-> 1]]
    /\ usersByNickname = GameConn
    /\ tasks = EmptyBag
    /\ nextRoom = 2
    /\ sent = EmptyBag
    /\ dr = DrIdle
    /\ we = WeIdle

NextGame ==
    \/ \E r \in DOMAIN rooms : StartGame(r)
    \/ StartGameResume
    \/ \E r \in DOMAIN rooms : HandleAction(r)
    \/ TimerTick
    \/ EndGameResume

SpecGame == InitGame /\ [][NextGame]_vars

----------------------------------------------------------------------------
(* The game of SpecGame with a store whose calls can fail. *)

\* An awaited call of endGame rejects (updateUserStats / updateUserCoins at
\* "updates", database.endGame at "dbEnd").  endGame has no try / catch, so
\* the rejection leaves endGame, checkWinConditions and the resolution that
\* awaited them; nothing after the await runs.
endGameReject(W, c) == [W EXCEPT !.chains = @ (-) SetToBag({c})]

EndGameReject ==
    \E c \in BagToSet(chains) :
        /\ c.op # "start"
        /\ \A inst \in DOMAIN games[c.g].resolved : games[c.g].resolved[inst] <= MaxRetry
        /\ Commit(endGameReject(World, c))
        /\ UNCHANGED <<nextGame, regVars, harnessVars>>

NextFail ==
    \/ NextGame
    \/ EndGameReject

SpecFail == InitGame /\ [][NextFail]_vars

----------------------------------------------------------------------------
(* A night with three mafia-type players: one room of nine, in which the   *)
(* players who hold a night role submit kill and heal actions while the    *)
(* clock advances.                                                         *)

NightPlayers == <<"a", "b", "c", "d", "e", "f", "g", "h", "i">>
NightTargets == {"d", "e"}
NightVerbs == {"kill", "heal"}
NightRoles == MafiaRoles \cup {"doctor"}

\* The draws of Math.random() in the shuffle of the nine roles.
NightDraws == {[k \in 1 .. 8 |-> 0]}

NightRoom ==
    [GameRoom EXCEPT !.players = [k \in 1 .. 9 |->
                                    [nickname |-> NightPlayers[k], isCreator |-> k = 1]]]

\* Date.now() at a submission: later than the stamp of every pending action.
Clock(actions) ==
    LET S(k) == {j \in 1 .. Len(actions) : actions[j].timestamp >= k}
    IN  1 + Cardinality({k \in 1 .. MaxStamp : S(k) # {}})

NightStart ==
    \E c \in BagToSet(chains) :
        /\ c.op = "start"
        /\ \E rnd \in NightDraws : Commit(startGameResume(World, c, nextGame, rnd))
        /\ nextGame' = nextGame + 1
        /\ UNCHANGED <<regVars, harnessVars>>

NightAction(roomId) ==
    /\ roomId \in DOMAIN rooms
    /\ rooms[roomId].registered
    /\ rooms[roomId].game # 0
    /\ LET g == rooms[roomId].game
       IN  /\ games[g].phase = "night"
           /\ Clock(games[g].actions) <= MaxStamp
           /\ \E n \in {p \in SeqToSet(games[g].players) : RoleIn(World, g, p) \in NightRoles},
                 verb \in NightVerbs, target \in NightTargets :
                 Commit(handleAction(World, roomId, n, verb, target, Clock(games[g].actions)))
    /\ UNCHANGED <<nextGame, regVars, harnessVars>>

InitNight ==
    /\ rooms = <<NightRoom>>
    /\ games = <<>>
    /\ gamesMap = <<>>
    /\ chains = EmptyBag
    /\ nextGame = 1
    /\ last = NoLast
    /\ connState = [c \in {<<"w", n>> : n \in Players} |-> "open"]
    /\ users = [c \in {<<"w", n>> : n \in Players} |-> [nickname |-> c[2], currentRoom |-> 1]]
    /\ usersByNickname = [n \in Players |-> <<"w", n>>]
    /\ tasks = EmptyBag
    /\ nextRoom = 2
    /\ sent = EmptyBag
    /\ dr = DrIdle
    /\ we = WeIdle

NextNight ==
    \/ StartGame(1)
    \/ NightStart
    \/ NightAction(1)
    \/ TimerTick

SpecNight == InitNight /\ [][NextNight]_vars

\* No socket, no room, no game.
EngineIdle ==
    /\ rooms = <<>>
    /\ games = <<>>
    /\ gamesMap = <<>>
    /\ chains = EmptyBag
    /\ nextGame = 1
    /\ last = NoLast
    /\ connState = [c \in Conns |-> "idle"]
    /\ users = <<>>
    /\ usersByNickname = <<>>
    /\ tasks = EmptyBag
    /\ nextRoom = 1
    /\ sent = EmptyBag

----------------------------------------------------------------------------
(* The connection and room registry (WebSocketHandler).  Its synchronous   *)
(* code is written as operators on a world                                 *)
(* R = [connState, users, usersByNickname, rooms, tasks, sent].            *)

RegConns == {"wa", "wb", "wc"}      \* the sockets that connect in a registry run
Arrival == <<"wa", "wb", "wc">>     \* sockets are named in the order they are accepted
RegNicks == {"a", "b"}              \* the nicknames they log in with
RoomSizes == {2}                    \* maxPlayers of the createRoom requests
RoomSecrets == {NULL}               \* passwords of the createRoom / joinRoom requests
RoomNames == {"r"}                  \* names of the createRoom requests

RegWorld == [connState |-> connState, users |-> users, usersByNickname |-> usersByNickname,
             rooms |-> rooms, tasks |-> tasks, sent |-> EmptyBag]

Event(ws, type) == [to |-> ws, type |-> type]

\* send(ws, data): delivered only when ws.readyState === OPEN
Send(R, ws, type) ==
    IF R.connState[ws] = "open"
    THEN [R EXCEPT !.sent = @ (+) SetToBag({Event(ws, type)})]
    ELSE R

sendError(R, ws) == Send(R, ws, "error")

\* A variant of the test of line 656 that shows every role.
ShowRoleAlways(nickname, userNickname, status) == TRUE

\* Line 656: p.nickname === userNickname || room.status === "finished"
ShowRole(nickname, userNickname, status) == nickname = userNickname \/ status = "finished"

\* sanitizeRoomForClient(room, userNickname = null): the players of the
\* snapshot with the role each of them is shown with.
sanitizeRoomForClient(room, userNickname) ==
    [k \in 1 .. Len(room.players) |->
        [nickname |-> room.players[k].nickname,
         role |-> IF ShowRole(room.players[k].nickname, userNickname, room.status)
                  THEN room.obj[room.players[k].nickname].role
                  ELSE NULL]]

\* A variant of the test of line 610 that takes every user for a member.
BoundToAny(user, roomId) == TRUE

\* Line 610: user.currentRoom === roomId
BoundTo(user, roomId) == user.currentRoom = roomId

\* Lines 609-613: the loop over this.users.entries(); todo holds the sockets
\* the iteration has not reached.
RECURSIVE BroadcastLoop(_, _, _, _)
BroadcastLoop(R, todo, roomId, type) ==
    IF todo = {} THEN R
    ELSE LET ws == CHOOSE w \in todo : TRUE
         IN  BroadcastLoop(IF BoundTo(R.users[ws], roomId) THEN Send(R, ws, type) ELSE R,
                           todo \ {ws}, roomId, type)

\* broadcastToRoom(roomId, message)
broadcastToRoom(R, roomId, type) ==
    IF ~(roomId \in DOMAIN R.rooms /\ R.rooms[roomId].registered) THEN R
    ELSE BroadcastLoop(R, DOMAIN R.users, roomId, type)

RECURSIVE BagSum(_, _)
BagSum(B, S) ==
    IF S = {} THEN 0
    ELSE LET e == CHOOSE x \in S : TRUE IN B[e] + BagSum(B, S \ {e})

\* The user object a suspended createRoom / joinRoom holds is no longer the
\* one in users once users.set or users.delete replaced it for that socket.
\* A suspended handleChatMessage reads user.currentRoom of its object after
\* the await (line 417): binding is what that object holds when it is replaced.
Orphaned(t, ws, binding) ==
    IF t.ws = ws /\ t.op \in {"create", "join", "chat"} /\ ~t.orphan
    THEN [t EXCEPT !.orphan = TRUE, !.roomId = IF t.op = "chat" THEN binding ELSE @]
    ELSE t

OrphanTasks(B, ws, binding) ==
    LET S == {Orphaned(t, ws, binding) : t \in BagToSet(B)}
    IN  [x \in S |-> BagSum(B, {t \in BagToSet(B) : Orphaned(t, ws, binding) = x})]

Without(f, x) == [y \in DOMAIN f \ {x} |-> f[y]]
With(f, x, v) == [y \in DOMAIN f \cup {x} |-> IF y = x THEN v ELSE f[y]]

RemoveAt(s, k) == [j \in 1 .. (Len(s) - 1) |-> IF j < k THEN s[j] ELSE s[j + 1]]

\* room.players.findIndex((p) => p.nickname === n), 1-based; 0 when absent
FindIndex(players, n) ==
    IF \E k \in 1 .. Len(players) : players[k].nickname = n
    THEN CHOOSE k \in 1 .. Len(players) :
            /\ players[k].nickname = n
            /\ \A j \in 1 .. (k - 1) : players[j].nickname # n
    ELSE 0

\* A variant of the handover that flags nobody.
PromoteNone(players) == players

\* Line 370: room.players[0].isCreator = true
Promote(players) == [players EXCEPT ![1].isCreator = TRUE]

\* leaveRoom(ws) up to its first await; what follows it only sends room lists.
leaveRoom(R, ws) ==
    IF ws \notin DOMAIN R.users \/ R.users[ws].currentRoom = 0 THEN R
    ELSE LET user == R.users[ws]
             roomId == user.currentRoom
         IN  IF ~(roomId \in DOMAIN R.rooms /\ R.rooms[roomId].registered) THEN R
             ELSE LET room == R.rooms[roomId]
                      playerIndex == FindIndex(room.players, user.nickname)
                      players1 == IF playerIndex # 0 THEN RemoveAt(room.players, playerIndex)
                                  ELSE room.players
                      R1 == [R EXCEPT !.users[ws].currentRoom = 0,
                                      !.rooms[roomId].players = players1]
                  IN  IF Len(players1) = 0
                      THEN [R1 EXCEPT !.rooms[roomId].registered = FALSE,
                                      !.rooms[roomId].row = FALSE]
                      ELSE LET R2 == IF room.creator = user.nickname
                                     THEN [R1 EXCEPT
                                             !.rooms[roomId].creator = players1[1].nickname,
                                             !.rooms[roomId].players = Promote(@)]
                                     ELSE R1
                               R3 == broadcastToRoom(R2, roomId, "roomUpdated")
                           IN  broadcastToRoom(R3, roomId, "chatMessage")

\* handleDisconnect(ws)
handleDisconnect(R, ws) ==
    IF ws \notin DOMAIN R.users THEN R
    ELSE LET user == R.users[ws]
             R1 == IF user.currentRoom # 0 THEN leaveRoom(R, ws) ELSE R
         IN  [R1 EXCEPT !.users = Without(@, ws),
                        !.usersByNickname = Without(@, user.nickname),
                        !.tasks = OrphanTasks(@, ws, R1.users[ws].currentRoom)]

\* handleLogin after `await this.db.loginUser` (lines 136-172); ok tells
\* whether the store knows the nickname with that password.
handleLogin(R, t, ok) ==
    IF ~ok THEN sendError(R, t.ws)
    ELSE LET kick == /\ t.nickname \in DOMAIN R.usersByNickname
                     /\ R.usersByNickname[t.nickname] # t.ws
             existingWs == R.usersByNickname[t.nickname]
             R0 == IF kick THEN Send(R, existingWs, "kicked") ELSE R
             R1 == IF kick /\ R.connState[existingWs] = "open"
                   THEN [R0 EXCEPT !.connState[existingWs] = "closing"]
                   ELSE R0
             R2 == [R1 EXCEPT !.users = With(@, t.ws, [nickname |-> t.nickname, currentRoom |-> 0]),
                              !.usersByNickname = With(@, t.nickname, t.ws),
                              !.tasks = OrphanTasks(@, t.ws,
                                                    IF t.ws \in DOMAIN R.users
                                                    THEN R.users[t.ws].currentRoom ELSE 0)]
         IN  Send(R2, t.ws, "loginSuccess")

\* The room object of createRoom (lines 220-243).  row tells whether the
\* rooms table holds a row for the room: the statements of the store take
\* effect in the order they are issued, and the INSERT of database.createRoom
\* is rejected when name is null (rooms.name is NOT NULL, database.js 44).
NewRoom(nickname, name, maxPlayers, password) ==
    [registered |-> TRUE, status |-> "waiting", creator |-> nickname,
     players |-> << [nickname |-> nickname, isCreator |-> TRUE] >>,
     obj |-> [n \in Players |-> NoObj],
     roles |-> DefaultRoles, maxPlayers |-> maxPlayers, password |-> password,
     name |-> name, row |-> name # NULL,
     game |-> 0]

\* A suspended handler call.  row: whether the SELECT of a joinRoom finds
\* the room's row.
Task(op, ws, nickname, roomId, password) ==
    [op |-> op, ws |-> ws, nickname |-> nickname, roomId |-> roomId,
     password |-> password, orphan |-> FALSE, row |-> FALSE]

\* createRoom up to `await this.db.createRoom` (lines 209-254)
createRoom(R, ws, roomId, name, maxPlayers, password) ==
    IF ws \notin DOMAIN R.users THEN sendError(R, ws)
    ELSE IF R.users[ws].currentRoom # 0 THEN sendError(R, ws)
    ELSE [R EXCEPT
            !.rooms = With(@, roomId, NewRoom(R.users[ws].nickname, name, maxPlayers, password)),
            !.tasks = @ (+) SetToBag({Task("create", ws, R.users[ws].nickname, roomId, password)})]

\* createRoom after `await this.db.createRoom` (lines 256-261), or its catch
\* block (lines 266-269) when the INSERT was rejected.
createRoomResume(R, t) ==
    IF R.rooms[t.roomId].name = NULL THEN sendError(R, t.ws)
    ELSE LET R1 == IF t.orphan THEN R ELSE [R EXCEPT !.users[t.ws].currentRoom = t.roomId]
         IN  Send(R1, t.ws, "roomJoined")

\* joinRoom up to `await this.db.getRoom` (lines 273-289)
joinRoom(R, ws, roomId, password) ==
    IF ws \notin DOMAIN R.users THEN sendError(R, ws)
    ELSE IF R.users[ws].currentRoom # 0 THEN sendError(R, ws)
    ELSE IF ~(roomId \in DOMAIN R.rooms /\ R.rooms[roomId].registered) THEN sendError(R, ws)
    ELSE [R EXCEPT !.tasks = @ (+) SetToBag({[Task("join", ws, R.users[ws].nickname, roomId, password)
                                               EXCEPT !.row = R.rooms[roomId].row]})]

\* A variant of the password check that lets every password pass.
WrongPasswordNever(dbRoom, password) == FALSE

\* Line 290: dbRoom.password && dbRoom.password !== password
WrongPassword(dbRoom, password) == dbRoom.password # NULL /\ dbRoom.password # password

\* A variant of the capacity test that finds no room full.
RoomFullNever(room) == FALSE

\* Line 294: room.players.length >= room.maxPlayers
RoomFull(room) == Len(room.players) >= room.maxPlayers

\* joinRoom after `await this.db.getRoom` (lines 290-331); the room object the
\* handler holds may have left the registry meanwhile.  dbRoom is the row of
\* the rooms table, whose password column holds the password of createRoom.
joinRoomResume(R, t) ==
    LET room == R.rooms[t.roomId]
        dbRoom == IF t.row THEN [password |-> room.password] ELSE [password |-> NULL]
    IN  IF t.row /\ WrongPassword(dbRoom, t.password)
        THEN sendError(R, t.ws)
        ELSE IF RoomFull(room) THEN sendError(R, t.ws)
        ELSE IF room.status # "waiting" THEN sendError(R, t.ws)
        ELSE LET R1 == [R EXCEPT !.rooms[t.roomId].players =
                                    Append(@, [nickname |-> t.nickname, isCreator |-> FALSE]),
                                 !.rooms[t.roomId].obj[t.nickname] = NoObj]
                 R2 == IF t.orphan THEN R1 ELSE [R1 EXCEPT !.users[t.ws].currentRoom = t.roomId]
                 R3 == Send(R2, t.ws, "roomJoined")
                 R4 == broadcastToRoom(R3, t.roomId, "roomUpdated")
             IN  broadcastToRoom(R4, t.roomId, "chatMessage")

\* handleChatMessage up to `await this.db.saveMessage` (lines 391-409); the
\* messages of a room are not part of the model.
handleChatMessage(R, ws) ==
    IF ws \notin DOMAIN R.users \/ R.users[ws].currentRoom = 0 THEN sendError(R, ws)
    ELSE IF ~(R.users[ws].currentRoom \in DOMAIN R.rooms
              /\ R.rooms[R.users[ws].currentRoom].registered) THEN sendError(R, ws)
    ELSE [R EXCEPT !.tasks = @ (+) SetToBag({Task("chat", ws, R.users[ws].nickname,
                                                  R.users[ws].currentRoom, NULL)})]

\* handleChatMessage after the await (lines 417-420)
chatResume(R, t) ==
    LET roomId == IF t.orphan THEN t.roomId ELSE R.users[t.ws].currentRoom
    IN  broadcastToRoom(R, roomId, "chatMessage")

\* A variant of handleGameAction that answers nothing.
handleGameActionSilent(R, ws) == R

\* handleGameAction (lines 423-436); a message it accepts is handed to the
\* engine, which HandleAction models.
handleGameAction(R, ws) ==
    IF ws \notin DOMAIN R.users \/ R.users[ws].currentRoom = 0 THEN sendError(R, ws)
    ELSE IF ~(R.users[ws].currentRoom \in DOMAIN R.rooms
              /\ R.rooms[R.users[ws].currentRoom].registered
              /\ R.rooms[R.users[ws].currentRoom].game # 0) THEN sendError(R, ws)
    ELSE R

RegAssign(R) ==
    /\ connState' = R.connState
    /\ users' = R.users
    /\ usersByNickname' = R.usersByNickname
    /\ rooms' = R.rooms
    /\ tasks' = R.tasks
    /\ sent' = R.sent

\* A step does not raise the number of suspended handlers above the cap.
RegCommit(R) ==
    /\ BagCardinality(R.tasks) <= MaxTasks \/ BagCardinality(R.tasks) <= BagCardinality(tasks)
    /\ RegAssign(R)

RegFrame == UNCHANGED <<games, gamesMap, chains, nextGame, last, harnessVars>>

----------------------------------------------------------------------------
(* Actions of the registry *)

\* wss.on("connection"): a socket is accepted and greeted.
Connect(ws) ==
    /\ connState[ws] = "idle"
    /\ \A k \in 1 .. Len(Arrival) :
          Arrival[k] = ws => \A j \in 1 .. (k - 1) : connState[Arrival[j]] # "idle"
    /\ \E R \in {[RegWorld EXCEPT !.connState[ws] = "open"]} : RegCommit(Send(R, ws, "connected"))
    /\ UNCHANGED nextRoom
    /\ RegFrame

\* A login message (lines 126-134): handleLogin up to `await this.db.loginUser`.
LoginCall(ws) ==
    /\ connState[ws] = "open"
    /\ \E n \in RegNicks :
          RegCommit([RegWorld EXCEPT !.tasks = @ (+) SetToBag({Task("login", ws, n, 0, NULL)})])
    /\ UNCHANGED nextRoom
    /\ RegFrame

LoginResume ==
    \E t \in BagToSet(tasks) :
        /\ t.op = "login"
        /\ \E ok \in BOOLEAN, R \in {[RegWorld EXCEPT !.tasks = @ (-) SetToBag({t})]} :
              RegCommit(handleLogin(R, t, ok))
        /\ UNCHANGED nextRoom
        /\ RegFrame

CreateRoomCall(ws) ==
    /\ connState[ws] = "open"
    /\ nextRoom <= MaxRooms
    /\ \E name \in RoomNames, maxPlayers \in RoomSizes, password \in RoomSecrets :
          \E R \in {createRoom(RegWorld, ws, nextRoom, name, maxPlayers, password)} :
              /\ RegCommit(R)
              /\ nextRoom' = IF nextRoom \in DOMAIN R.rooms THEN nextRoom + 1 ELSE nextRoom
    /\ RegFrame

CreateRoomResume ==
    \E t \in BagToSet(tasks) :
        /\ t.op = "create"
        /\ \E R \in {[RegWorld EXCEPT !.tasks = @ (-) SetToBag({t})]} : RegCommit(createRoomResume(R, t))
        /\ UNCHANGED nextRoom
        /\ RegFrame

\* A client can name the id of a room (a uuid made by createRoom, line 219)
\* only after the server has sent it: in the roomJoined event of the
\* completed createRoom or in a rooms list, which is read from the rooms
\* table (lines 178-206).  Any other id it sends is the id of no room.
Announced(roomId) ==
    roomId \in DOMAIN rooms
    => /\ rooms[roomId].name # NULL
       /\ ~\E t \in BagToSet(tasks) : t.op = "create" /\ t.roomId = roomId

JoinRoomCall(ws) ==
    /\ connState[ws] = "open"
    /\ \E roomId \in 1 .. MaxRooms, password \in RoomSecrets :
          /\ Announced(roomId)
          /\ RegCommit(joinRoom(RegWorld, ws, roomId, password))
    /\ UNCHANGED nextRoom
    /\ RegFrame

JoinRoomResume ==
    \E t \in BagToSet(tasks) :
        /\ t.op = "join"
        /\ \E R \in {[RegWorld EXCEPT !.tasks = @ (-) SetToBag({t})]} : RegCommit(joinRoomResume(R, t))
        /\ UNCHANGED nextRoom
        /\ RegFrame

LeaveRoom(ws) ==
    /\ connState[ws] = "open"
    /\ RegCommit(leaveRoom(RegWorld, ws))
    /\ UNCHANGED nextRoom
    /\ RegFrame

\* ws.on("close"): the peer closed the socket, or the close started by a
\* kick completed.
Disconnect(ws) ==
    /\ connState[ws] \in {"open", "closing"}
    /\ \E R \in {[RegWorld EXCEPT !.connState[ws] = "closed"]} : RegCommit(handleDisconnect(R, ws))
    /\ UNCHANGED nextRoom
    /\ RegFrame

InitReg == EngineIdle /\ dr = DrIdle /\ we = WeIdle

NextReg ==
    \/ \E ws \in RegConns : Connect(ws)
    \/ \E ws \in RegConns : LoginCall(ws)
    \/ LoginResume
    \/ \E ws \in RegConns : CreateRoomCall(ws)
    \/ CreateRoomResume
    \/ \E ws \in RegConns : JoinRoomCall(ws)
    \/ JoinRoomResume
    \/ \E ws \in RegConns : LeaveRoom(ws)
    \/ \E ws \in RegConns : Disconnect(ws)

SpecReg == InitReg /\ [][NextReg]_vars

----------------------------------------------------------------------------
(* The lobby: two sockets that have logged in create, join and leave       *)
(* rooms, with two handlers suspended at a time and with the room names,   *)
(* sizes and passwords a client can send.                                  *)

LobbyConns == {"wa", "wb"}
LobbyNick == ("wa" :> "a") @@ ("wb" :> "b")
LobbyNames == {"r", NULL}           \* data.room.name, absent or present
LobbySizes == {2}                   \* data.room.maxPlayers
LobbySecrets == {NULL, "p"}         \* data.room.password / data.password

LobbyCommit(R) ==
    /\ BagCardinality(R.tasks) <= LobbyTasks
    /\ RegAssign(R)

LobbyCreate(ws) ==
    /\ connState[ws] = "open"
    /\ nextRoom <= LobbyRooms
    /\ \E name \in LobbyNames, maxPlayers \in LobbySizes, password \in LobbySecrets :
          \E R \in {createRoom(RegWorld, ws, nextRoom, name, maxPlayers, password)} :
              /\ LobbyCommit(R)
              /\ nextRoom' = IF nextRoom \in DOMAIN R.rooms THEN nextRoom + 1 ELSE nextRoom
    /\ RegFrame

LobbyJoin(ws) ==
    /\ connState[ws] = "open"
    /\ \E roomId \in 1 .. LobbyRooms, password \in LobbySecrets :
          /\ Announced(roomId)
          /\ LobbyCommit(joinRoom(RegWorld, ws, roomId, password))
    /\ UNCHANGED nextRoom
    /\ RegFrame

InitLobby ==
    /\ rooms = <<>>
    /\ games = <<>>
    /\ gamesMap = <<>>
    /\ chains = EmptyBag
    /\ nextGame = 1
    /\ last = NoLast
    /\ connState = [c \in Conns |-> IF c \in LobbyConns THEN "open" ELSE "idle"]
    /\ users = [c \in LobbyConns |-> [nickname |-> LobbyNick[c], currentRoom |-> 0]]
    /\ usersByNickname = [n \in {"a", "b"} |-> IF n = "a" THEN "wa" ELSE "wb"]
    /\ tasks = EmptyBag
    /\ nextRoom = 1
    /\ sent = EmptyBag
    /\ dr = DrIdle
    /\ we = WeIdle

NextLobby ==
    \/ \E ws \in LobbyConns : LobbyCreate(ws)
    \/ CreateRoomResume
    \/ \E ws \in LobbyConns : LobbyJoin(ws)
    \/ JoinRoomResume
    \/ \E ws \in LobbyConns : LeaveRoom(ws)
    \/ \E ws \in LobbyConns : Disconnect(ws)

SpecLobby == InitLobby /\ [][NextLobby]_vars

----------------------------------------------------------------------------
(* The registry of SpecReg with the chat and gameAction messages.          *)

ChatCall(ws) ==
    /\ connState[ws] = "open"
    /\ RegCommit(handleChatMessage(RegWorld, ws))
    /\ UNCHANGED nextRoom
    /\ RegFrame

ChatResume ==
    \E t \in BagToSet(tasks) :
        /\ t.op = "chat"
        /\ \E R \in {[RegWorld EXCEPT !.tasks = @ (-) SetToBag({t})]} : RegCommit(chatResume(R, t))
        /\ UNCHANGED nextRoom
        /\ RegFrame

GameActionCall(ws) ==
    /\ connState[ws] = "open"
    /\ RegCommit(handleGameAction(RegWorld, ws))
    /\ UNCHANGED nextRoom
    /\ RegFrame

NextAuth ==
    \/ NextReg
    \/ \E ws \in RegConns : ChatCall(ws)
    \/ ChatResume
    \/ \E ws \in RegConns : GameActionCall(ws)

SpecAuth == InitReg /\ [][NextAuth]_vars

----------------------------------------------------------------------------
(* Two games in a row in the room of SpecGame: the second is started after *)
(* the first was detached, while intervals of the first may still run.     *)
(* The only messages are the kills of the night.                           *)

RematchIds == {2}                   \* the id of the second game object

StartRematch(roomId) ==
    /\ roomId \in DOMAIN rooms
    /\ rooms[roomId].registered
    /\ rooms[roomId].status = "waiting"
    /\ rooms[roomId].game = 0
    /\ Len(rooms[roomId].players) >= MinRoster
    /\ ~\E c \in BagToSet(chains) : c.roomId = roomId
    /\ nextGame \in RematchIds
    /\ Commit([World EXCEPT !.chains = @ (+) SetToBag({[op |-> "start", roomId |-> roomId,
               players |-> [k \in 1 .. Len(rooms[roomId].players) |->
                              rooms[roomId].players[k].nickname]]})])
    /\ UNCHANGED <<nextGame, regVars, harnessVars>>

NightKill(roomId) ==
    /\ roomId \in DOMAIN rooms
    /\ rooms[roomId].registered
    /\ rooms[roomId].game # 0
    /\ games[rooms[roomId].game].phase = "night"
    /\ \E n \in SeqToSet(games[rooms[roomId].game].players), target \in Targets :
          /\ InRoom(n, roomId)
          /\ Commit(handleAction(World, roomId, n, "kill", target, 0))
    /\ UNCHANGED <<nextGame, regVars, harnessVars>>

NextRematch ==
    \/ \E r \in DOMAIN rooms : StartGame(r)
    \/ \E r \in DOMAIN rooms : StartRematch(r)
    \/ StartGameResume
    \/ \E r \in DOMAIN rooms : NightKill(r)
    \/ TimerTick
    \/ EndGameResume

SpecRematch == InitGame /\ [][NextRematch]_vars

----------------------------------------------------------------------------
(* One game of the room of SpecGame in which the only messages are the     *)
(* kills of the night, with the scheduling of Node: an interval that is    *)
(* running ticks again, and an awaited call of the store completes.        *)

NextTick ==
    \/ \E r \in DOMAIN rooms : StartGame(r)
    \/ StartGameResume
    \/ \E r \in DOMAIN rooms : NightKill(r)
    \/ TimerTick
    \/ EndGameResume

\* ENABLED <<TimerTick>>_vars: an interval is running and its callback stays
\* within the caps of the run.
TickEnabled ==
    \E g \in DOMAIN games :
        /\ games[g].timers > 0
        /\ \E C \in {Collect(timerCallback(World, g))} : WithinBounds(C)

\* Weak fairness of TimerTick, WF_vars(TimerTick), written with TickEnabled
\* for its enabling condition.
TickFair == []<>(~TickEnabled) \/ []<><<TimerTick>>_vars

SpecTick ==
    /\ InitGame
    /\ [][NextTick]_vars
    /\ TickFair
    /\ WF_vars(StartGameResume)
    /\ WF_vars(EndGameResume)

----------------------------------------------------------------------------
(* The game of SpecGame whose players can leave the room or lose their     *)
(* connection while the game runs.                                         *)

DepartConns == {"wb"}               \* the sockets that leave or close

\* The departures taken are those of a participant whose action is pending
\* in the game of the room.
Pending(ws) ==
    /\ ws \in DOMAIN users
    /\ users[ws].currentRoom \in DOMAIN rooms
    /\ rooms[users[ws].currentRoom].game # 0
    /\ LET game == games[rooms[users[ws].currentRoom].game]
       IN  \E k \in 1 .. Len(game.actions) : game.actions[k].player = users[ws].nickname

LeaveDuringGame(ws) ==
    /\ connState[ws] = "open"
    /\ Pending(ws)
    /\ \E R \in {leaveRoom(RegWorld, ws)} :
          /\ RegAssign(R)
          /\ last' = NoLast
          /\ UNCHANGED <<games, gamesMap, chains, nextGame, nextRoom, harnessVars>>

DisconnectDuringGame(ws) ==
    /\ connState[ws] = "open"
    /\ Pending(ws)
    /\ \E R \in {handleDisconnect([RegWorld EXCEPT !.connState[ws] = "closed"], ws)} :
          /\ RegAssign(R)
          /\ last' = NoLast
          /\ UNCHANGED <<games, gamesMap, chains, nextGame, nextRoom, harnessVars>>

NextLeave ==
    \/ NextGame
    \/ \E ws \in DepartConns : LeaveDuringGame(ws)
    \/ \E ws \in DepartConns : DisconnectDuringGame(ws)

SpecLeave == InitGame /\ [][NextLeave]_vars

----------------------------------------------------------------------------
(* Properties of the engine, checked under SpecGame *)

AliveFlags(rs, roomId) == [n \in Players |-> rs[roomId].obj[n].isAlive]

\* C1: every phase instance (one Night or one Day of a game) is resolved at
\* most once: processNightActions / processDayVoting runs at most once on it,
\* whichever of action-completion and countdown expiry triggers it first.
C1_ResolvedAtMostOnce ==
    \A g \in DOMAIN games :
        \A inst \in DOMAIN games[g].resolved : games[g].resolved[inst] <= 1

\* C4: a room holds a game exactly when its status is playing.
C4_GameIffPlaying ==
    \A r \in DOMAIN rooms : (rooms[r].game # 0) <=> (rooms[r].status = "playing")

\* C4 witness: a game was started in a room and endGame has detached it.
C4_Witness ==
    \E g \in DOMAIN games :
        /\ games[g].ended
        /\ rooms[games[g].roomId].game = 0
        /\ rooms[games[g].roomId].status = "waiting"

\* C5: once endGame has detached a game, no countdown timer started for that
\* game is still running.
C5_TimersStoppedAtEnd ==
    \A g \in DOMAIN games : games[g].ended => games[g].timers = 0

\* C6: a game has at most one running countdown timer at any time.
C6_AtMostOneTimer ==
    \A g \in DOMAIN games : games[g].timers <= 1

\* C9: once win evaluation has decided a winner of a game, no phase
\* resolution, elimination, phase change or day-counter change of that game
\* occurs any more.
C9_TerminalOnceDecided ==
    [][\A g \in DOMAIN games :
          (games[g].decided # NULL /\ g \in DOMAIN games')
          => /\ games'[g].resolved = games[g].resolved
             /\ games'[g].phase = games[g].phase
             /\ games'[g].day = games[g].day
             /\ AliveFlags(rooms', games[g].roomId) = AliveFlags(rooms, games[g].roomId)]_vars

\* The state the resolution of the last step left its game in.
Res == last.res
ResGame == games[last.res.g]
ResAliveNow == AliveSet(World, last.res.g)
ResDied == last.res.alive \ ResAliveNow

\* The entries of the pending actions a night resolution read that its
\* filters keep: kills of mafia-type players and heals of doctors.
ResRole(n) == rooms[ResGame.roomId].obj[n].role
ResKills == SelectSeq(Res.actions, LAMBDA a : a.action = "kill" /\ ResRole(a.player) \in MafiaRoles)
ResHealed == {Res.actions[k].target :
                k \in {j \in 1 .. Len(Res.actions) :
                         Res.actions[j].action = "heal" /\ ResRole(Res.actions[j].player) = "doctor"}}

\* C12: in night resolution, if a heal submitted by a doctor names the
\* target of the honoured kill, no alive flag changes that night and the
\* outcome text is the nobody-harmed line.
C12_HealNegatesKill ==
    (Res.kind = "night" /\ ResKills # <<>> /\ ResKills[1].target \in ResHealed) =>
        /\ ResAliveNow = Res.alive
        /\ ResGame.lastAction = <<"calm">>

\* C12 witness: three mafia-type players asked for the kill of a living
\* player, the doctor healed that player, and the night was resolved.
C12_Witness ==
    /\ Res.kind = "night"
    /\ Len(ResKills) = 3
    /\ ResKills[1].target \in ResHealed \cap Res.alive
    /\ ResGame.phase = "day"

\* The kill of a mafia-type player that was submitted first.
ResEarliest ==
    CHOOSE k \in 1 .. Len(ResKills) :
        \A j \in 1 .. Len(ResKills) : ResKills[k].timestamp <= ResKills[j].timestamp

\* C13: night resolution honours the target of the earliest-submitted kill
\* among the kills of the mafia-type players of that night and ignores the
\* other kills, so at most one participant dies per night.
C13_EarliestKillHonoured ==
    (Res.kind = "night" /\ ResKills # <<>>) =>
        /\ Cardinality(ResDied) <= 1
        /\ IF ResKills[ResEarliest].target \in ResHealed
           THEN ResDied = {}
           ELSE ResAliveNow = Res.alive \ {ResKills[ResEarliest].target}

\* The tally of the votes a day resolution read: per target the number of
\* vote actions naming it and the position of the first of them.
ResVotes == {k \in 1 .. Len(Res.actions) : Res.actions[k].action = "vote" /\ Res.actions[k].target # NULL}
ResVoted == {Res.actions[k].target : k \in ResVotes}
ResCount(t) == Cardinality({k \in ResVotes : Res.actions[k].target = t})
ResFirst(t) == CHOOSE k \in ResVotes :
                  /\ Res.actions[k].target = t
                  /\ \A j \in ResVotes : Res.actions[j].target = t => k <= j

\* The target with the highest count, the first reached among those tied.
ResLeads(t) ==
    \A u \in ResVoted \ {t} :
        \/ ResCount(u) < ResCount(t)
        \/ ResCount(u) = ResCount(t) /\ ResFirst(t) < ResFirst(u)

\* C14: day resolution eliminates the target with the highest vote count in
\* the tally of the pending vote actions, among targets tied for the maximum
\* the one reached first in tally order, and eliminates nobody when no vote
\* was cast.
C14_DayEliminatesLeader ==
    Res.kind = "day" =>
        /\ ResVoted = {} => ResAliveNow = Res.alive
        /\ \A t \in ResVoted : ResLeads(t) => ResAliveNow = Res.alive \ {t}

\* C14 witness: two targets were tied and the one voted for first, who was
\* alive, was eliminated.
C14_Witness ==
    /\ Res.kind = "day"
    /\ \E t \in ResVoted, u \in ResVoted :
          /\ t # u
          /\ ResCount(t) = ResCount(u)
          /\ ResLeads(t)
          /\ ResDied = {t}

\* C15: every night resolution leaves the game in the Day phase with the day
\* counter unchanged, no pending action and the countdown at the day
\* duration; the outcome text is the nobody-harmed line when no one died and
\* the victim-was-killed line when a participant died.
C15_NightLeavesDay ==
    Res.kind = "night" =>
        /\ ResGame.phase = "day"
        /\ ResGame.day = Res.day
        /\ ResGame.actions = <<>>
        /\ ResGame.timeLeft = DayTime
        /\ ResDied = {} => ResGame.lastAction = <<"calm">>
        /\ \A v \in ResDied : ResGame.lastAction = <<"killed", v>>

\* The verdict of win evaluation on the state a resolution left.
ResWinner ==
    Winner(SeqToSet(ResGame.players),
           [p \in Players |-> rooms[ResGame.roomId].obj[p].role],
           [p \in Players |-> rooms[ResGame.roomId].obj[p].isAlive])

\* C16: a day resolution that decides no winner moves the game to Night with
\* the day counter incremented by one, no pending action and the countdown
\* at the night duration; one that decides a winner makes no transition to
\* Night and leaves the day counter.
C16_DayLeavesNightOrEnds ==
    Res.kind = "day" =>
        IF ResWinner = NULL
        THEN /\ ResGame.phase = "night"
             /\ ResGame.day = Res.day + 1
             /\ ResGame.actions = <<>>
             /\ ResGame.timeLeft = NightTime
        ELSE /\ ResGame.phase = "day"
             /\ ResGame.day = Res.day

\* C16 witness: a day resolution eliminated a player, decided no winner and
\* opened the second night.
C16_Witness ==
    /\ Res.kind = "day"
    /\ ResDied # {}
    /\ ResWinner = NULL
    /\ ResGame.phase = "night" /\ ResGame.day = 2

PhaseVerbs == {"kill", "heal", "vote"}

\* What handleAction makes of a submission in the current state.
Submitted(r, n, v, t) == handleAction(World, r, n, v, t, 0)

\* C17: the pending actions hold at most one action per actor and only
\* actions of players of the game; a submission of a living player replaces
\* that player's pending action or adds one, and is logged; a submission of
\* a dead player or of someone who is no player of the game changes neither
\* the pending actions nor the log nor the phase.
C17_OneActionPerActor ==
    \A r \in DOMAIN rooms :
        Live(World, r) =>
            LET g == rooms[r].game
                acts == games[g].actions
                has(as, n) == {k \in 1 .. Len(as) : as[k].player = n}
            IN  /\ \A n \in Players \cup Outsiders : Cardinality(has(acts, n)) <= 1
                /\ \A k \in 1 .. Len(acts) : acts[k].player \in SeqToSet(games[g].players)
                /\ \A n \in SeqToSet(games[g].players) \cup Outsiders, v \in PhaseVerbs, t \in Targets :
                      LET W == Submitted(r, n, v, t)
                          seen == IF W.last.res.kind = "none" THEN W.games[g].actions
                                  ELSE W.last.res.actions
                      IN  IF AliveIn(World, g, n)
                          THEN /\ W.last.logged = 1
                               /\ Len(seen) = Len(acts) + (IF has(acts, n) = {} THEN 1 ELSE 0)
                               /\ \A k \in has(acts, n) : has(seen, n) = {k}
                               /\ \A k \in has(seen, n) : seen[k].action = v /\ seen[k].target = t
                               /\ \A k \in 1 .. Len(acts) : acts[k].player # n => seen[k] = acts[k]
                          ELSE /\ W.last.logged = 0
                               /\ W.games = games
                               /\ W.rooms = rooms

\* C17 witness: a submission was just accepted in a game in which a player
\* is dead and two actions are pending.
C17_Witness ==
    /\ last.logged = 1
    /\ \E r \in DOMAIN rooms :
          /\ Live(World, r)
          /\ Len(games[rooms[r].game].actions) = 2
          /\ \E n \in SeqToSet(games[rooms[r].game].players) : ~AliveIn(World, rooms[r].game, n)

----------------------------------------------------------------------------
(* Properties of the registry, checked under SpecReg *)

Bound(n) == {c \in DOMAIN users : users[c].nickname = n}
OpenBound(n) == {c \in Bound(n) : connState[c] = "open"}

InRoster(room, n) == \E k \in 1 .. Len(room.players) : room.players[k].nickname = n

RostersOf(n) == {r \in DOMAIN rooms : rooms[r].registered /\ InRoster(rooms[r], n)}

\* C2: after any sequence of login, re-login and disconnect events at most
\* one open connection is bound to any given nickname.
C2_OneOpenPerNickname ==
    \A n \in RegNicks : Cardinality(OpenBound(n)) <= 1

\* C3: whenever no handler is suspended at a persistence call, each
\* connection's nickname is in the roster of at most one room, and it is in
\* the roster of room R exactly when the connection's currentRoom is R.
C3_RosterMatchesBinding ==
    tasks = EmptyBag =>
        \A c \in DOMAIN users :
            /\ Cardinality(RostersOf(users[c].nickname)) <= 1
            /\ \A r \in DOMAIN rooms :
                  rooms[r].registered =>
                      (InRoster(rooms[r], users[c].nickname) <=> users[c].currentRoom = r)

\* C7: a successful login of a nickname that has another open connection
\* bound sends that connection a kicked event and closes it, and when the
\* close of a kicked connection is processed the nickname stays bound, in
\* usersByNickname, to the connection that replaced it.
C7_KickThenRebind ==
    [][/\ \A c \in RegConns :
            (Event(c, "loginSuccess") \in BagToSet(sent') /\ c \in DOMAIN users')
            => \A d \in OpenBound(users'[c].nickname) \ {c} :
                  /\ Event(d, "kicked") \in BagToSet(sent')
                  /\ connState'[d] # "open"
       /\ \A d \in DOMAIN users :
            (connState[d] = "closing" /\ connState'[d] = "closed")
            => \A c \in DOMAIN users' :
                  (users'[c].nickname = users[d].nickname /\ connState'[c] = "open")
                  => /\ users[d].nickname \in DOMAIN usersByNickname'
                     /\ usersByNickname'[users[d].nickname] = c]_vars

\* A rejected call: no roster and no binding changed, and the caller was
\* sent an error event.
Rejected(R, ws) ==
    /\ DOMAIN R.rooms = DOMAIN rooms
    /\ \A r \in DOMAIN rooms : R.rooms[r].players = rooms[r].players
    /\ R.users = users
    /\ connState[ws] = "open" => Event(ws, "error") \in BagToSet(R.sent)

C19_JoinEffects ==
    [][\A r \in DOMAIN rooms :
          (r \in DOMAIN rooms' /\ Len(rooms'[r].players) > Len(rooms[r].players))
          => LET new == rooms'[r].players[Len(rooms'[r].players)]
             IN  /\ rooms'[r].players = Append(rooms[r].players, new)
                 /\ ~new.isCreator
                 /\ rooms'[r].obj[new.nickname] = NoObj
                 /\ \E t \in BagToSet(tasks) :
                       /\ t.op = "join" /\ t.roomId = r /\ t.nickname = new.nickname
                       /\ tasks' = tasks (-) SetToBag({t})
                       /\ t.ws \in DOMAIN users'
                       /\ users'[t.ws].nickname = new.nickname
                       /\ users'[t.ws].currentRoom = r
                 /\ \A ws \in DOMAIN users :
                       (users[ws].currentRoom = r /\ connState[ws] = "open")
                       => /\ Event(ws, "roomUpdated") \in BagToSet(sent')
                          /\ Event(ws, "chatMessage") \in BagToSet(sent')]_vars

\* The createRoom calls of socket ws that are suspended at their await.
CreatesInFlight(T, ws) == {t \in BagToSet(T) : t.op = "create" /\ t.ws = ws /\ ~t.orphan}

\* C20: a createRoom call creates a room only for a connection that has no
\* room and no other createRoom call in flight; the room it creates is in
\* status waiting and its roster is exactly the caller, flagged as owner;
\* the call binds the caller to the room when it completes.
C20_CreateRoom ==
    [][/\ nextRoom' # nextRoom
          => \E t \in BagToSet(tasks') :
                /\ t.op = "create" /\ t.roomId = nextRoom
                /\ rooms'[nextRoom].status = "waiting"
                /\ rooms'[nextRoom].players = << [nickname |-> t.nickname, isCreator |-> TRUE] >>
                /\ users[t.ws].nickname = t.nickname
                /\ users[t.ws].currentRoom = 0
                /\ CreatesInFlight(tasks, t.ws) = {}
       /\ \A t \in BagToSet(tasks) :
             (t.op = "create" /\ ~t.orphan /\ rooms[t.roomId].name # NULL
              /\ tasks' = tasks (-) SetToBag({t}) /\ t.ws \in DOMAIN users')
             => users'[t.ws].currentRoom = t.roomId]_vars

Nicknames(players) == [k \in 1 .. Len(players) |-> players[k].nickname]

\* C21: leaveRoom removes the caller from the roster and keeps the order of
\* the others; when the roster becomes empty the room leaves the registry,
\* otherwise, when the caller was the owner, the participant at roster
\* position 0 becomes the owner.
C21_LeaveRoom ==
    \A ws \in DOMAIN users :
        (/\ connState[ws] = "open"
         /\ users[ws].currentRoom \in DOMAIN rooms
         /\ rooms[users[ws].currentRoom].registered)
        => \E R \in {leaveRoom(RegWorld, ws)} :
              LET r == users[ws].currentRoom
                  n == users[ws].nickname
                  old == rooms[r]
                  new == R.rooms[r]
              IN  /\ Nicknames(new.players) = SelectSeq(Nicknames(old.players), LAMBDA x : x # n)
                  /\ new.players = <<>> => ~new.registered
                  /\ new.players # <<>> =>
                        /\ new.registered
                        /\ IF old.creator = n
                           THEN new.creator = new.players[1].nickname /\ new.players[1].isCreator
                           ELSE new.creator = old.creator

\* handleDisconnect on the close of socket ws.
Released(ws) == handleDisconnect([RegWorld EXCEPT !.connState[ws] = "closed"], ws)

\* C22: releasing a connection performs the room departure when the
\* connection had a room and removes its identity binding: afterwards the
\* connection is bound to no identity and its participant is in no roster
\* (unless another connection of that nickname is a member of the room);
\* releasing it a second time changes nothing, and leaveRoom on a
\* connection with no room changes nothing.
C22_ReleaseConnection ==
    /\ \A ws \in DOMAIN users :
          \E R \in {Released(ws)} :
              /\ ws \notin DOMAIN R.users
              /\ \A n \in DOMAIN R.usersByNickname : R.usersByNickname[n] # ws
              /\ \A r \in DOMAIN R.rooms :
                    (/\ R.rooms[r].registered
                     /\ \E k \in 1 .. Len(R.rooms[r].players) :
                           R.rooms[r].players[k].nickname = users[ws].nickname)
                    => \E w \in DOMAIN R.users :
                          /\ R.users[w].nickname = users[ws].nickname
                          /\ R.users[w].currentRoom = r
              /\ handleDisconnect(R, ws) = R
    /\ \A ws \in DOMAIN users :
          users[ws].currentRoom = 0 => leaveRoom(RegWorld, ws) = RegWorld

\* C25: when a call of the store fails during game end, the game still
\* advances: a room is never left with a game attached (status playing)
\* while neither a countdown of that game is running nor a call of
\* startGame / endGame for the room is in flight.
C25_NeverStuck ==
    \A r \in DOMAIN rooms :
        rooms[r].game # 0
        => \/ games[rooms[r].game].timers > 0
           \/ \E c \in BagToSet(chains) : c.roomId = r

\* The players of the resolved game that are still in the roster of its room.
ResPresent == {rooms[ResGame.roomId].players[k].nickname :
                 k \in 1 .. Len(rooms[ResGame.roomId].players)}

\* C26: a pending action of a participant who left the room or disconnected
\* is not counted when the phase is resolved: whoever a resolution
\* eliminates was named by a kill or a vote of a participant who is still
\* in the room.
C26_DepartedNotCounted ==
    /\ Res.kind = "night" =>
          \A v \in ResDied :
              \E k \in 1 .. Len(Res.actions) :
                  /\ Res.actions[k].action = "kill" /\ Res.actions[k].target = v
                  /\ Res.actions[k].player \in ResPresent
    /\ Res.kind = "day" =>
          \A v \in ResDied :
              \E k \in 1 .. Len(Res.actions) :
                  /\ Res.actions[k].action = "vote" /\ Res.actions[k].target = v
                  /\ Res.actions[k].player \in ResPresent

\* C24: in every room snapshot built while the room status is not finished,
\* the role of each participant other than the one the snapshot is built
\* for is null, whatever role the participant holds; the participant the
\* snapshot is built for is shown with its own role.  The snapshots are
\* built for the recipient's own nickname (roomJoined) or for nobody
\* (roomUpdated).
C24_RolesHidden ==
    \A r \in DOMAIN rooms, viewer \in Players \cup {NULL} :
        \E snap \in {sanitizeRoomForClient(rooms[r], viewer)} :
            \A k \in 1 .. Len(snap) :
                /\ (rooms[r].status # "finished" /\ snap[k].nickname # viewer) => snap[k].role = NULL
                /\ snap[k].nickname = viewer => snap[k].role = rooms[r].obj[viewer].role

\* C24 witness: in a running game the snapshot built for the first player
\* shows that player's role and hides the role the second player holds.
C24_Witness ==
    \E r \in DOMAIN rooms :
        /\ rooms[r].status = "playing"
        /\ rooms[r].obj[rooms[r].players[2].nickname].role # NULL
        /\ \E snap \in {sanitizeRoomForClient(rooms[r], rooms[r].players[1].nickname)} :
              snap[1].role # NULL /\ snap[2].role = NULL

\* What one call of broadcastToRoom delivers in the current state.
Broadcast(roomId) == broadcastToRoom(RegWorld, roomId, "chatMessage").sent

\* C23: one call of broadcastToRoom delivers the event at most once to each
\* connection whose room binding equals roomId, and to no connection that
\* is bound to another room or to no room.
C23_BroadcastToMembers ==
    \A roomId \in 1 .. LobbyRooms :
        \E B \in {Broadcast(roomId)} :
            /\ BagToSet(B) \subseteq {Event(ws, "chatMessage") : ws \in Conns}
            /\ \A ws \in Conns :
                  /\ CopiesIn(Event(ws, "chatMessage"), B) <= 1
                  /\ CopiesIn(Event(ws, "chatMessage"), B) = 1
                     => ws \in DOMAIN users /\ users[ws].currentRoom = roomId

\* C23 witness: a broadcast to a room reaches the connection bound to it
\* while another open connection is bound to another room.
C23_Witness ==
    \E roomId \in 1 .. LobbyRooms, ws \in DOMAIN users, other \in DOMAIN users :
        /\ CopiesIn(Event(ws, "chatMessage"), Broadcast(roomId)) = 1
        /\ connState[other] = "open"
        /\ users[other].currentRoom \notin {0, roomId}

\* C27: a phase resolution (a game state mutation) is followed, in the step
\* that ran it, by an event delivered to every open connection bound to the
\* room of the game.
C27_MutationBroadcast ==
    Res.kind # "none" =>
        \A ws \in DOMAIN users :
            (connState[ws] = "open" /\ users[ws].currentRoom = ResGame.roomId)
            => \E e \in BagToSet(sent) : e.to = ws

\* The payments of the step that completed the updates of endGame.
Pay == last.pay
PayRoom == rooms[games[Pay.g].roomId]

NoChange(R, pending) ==
    /\ R.rooms = rooms
    /\ R.users = users
    /\ R.usersByNickname = usersByNickname
    /\ R.connState = connState
    /\ R.tasks = pending

\* The answer of a rejected call: one error event to the caller.
AuthRejected(R, ws, pending) ==
    /\ NoChange(R, pending)
    /\ connState[ws] = "open" => R.sent = SetToBag({Event(ws, "error")})

\* C30: a request rejected for authorization reasons is answered with an
\* error event and changes no state: createRoom and joinRoom from a
\* connection that is not logged in, chat and gameAction from a connection
\* that is in no room, and a login the store refuses leave every roster,
\* room binding, game and identity binding unchanged and close no connection.
C30_AuthorizationErrors ==
    /\ \A ws \in RegConns :
          (connState[ws] = "open" /\ ws \notin DOMAIN users)
          => \A roomId \in 1 .. MaxRooms, password \in RoomSecrets :
                /\ AuthRejected(joinRoom(RegWorld, ws, roomId, password), ws, tasks)
                /\ \A name \in RoomNames, maxPlayers \in RoomSizes :
                      AuthRejected(createRoom(RegWorld, ws, roomId, name, maxPlayers, password),
                                   ws, tasks)
    /\ \A ws \in RegConns :
          (connState[ws] = "open" /\ (ws \in DOMAIN users => users[ws].currentRoom = 0))
          => /\ AuthRejected(handleChatMessage(RegWorld, ws), ws, tasks)
             /\ AuthRejected(handleGameAction(RegWorld, ws), ws, tasks)
    /\ \A t \in BagToSet(tasks) :
          t.op = "login"
          => \E R \in {[RegWorld EXCEPT !.tasks = @ (-) SetToBag({t})]} :
                AuthRejected(handleLogin(R, t, FALSE), t.ws, R.tasks)

\* C30 witness: an open connection that is not logged in was answered with
\* an error event while another connection is logged in and in a room.
C30_Witness ==
    \E ws \in RegConns, other \in DOMAIN users :
        /\ connState[ws] = "open" /\ ws \notin DOMAIN users
        /\ sent = SetToBag({Event(ws, "error")})
        /\ users[other].currentRoom # 0

\* C31: the end-of-game stats and coin updates of a game are applied at most
\* once: a step that completes the update loop of endGame for a game is
\* never taken for a game whose updates were completed before.
C31_PaidAtMostOnce ==
    [][\A g \in DOMAIN games : last'.pay.g = g => ~games[g].ended]_vars

\* A step in which an interval of game g ticked: the game lost a second, or
\* its last interval expired and the game object was dropped.
Ticked(g) ==
    IF g \in DOMAIN games' THEN games'[g].timeLeft < games[g].timeLeft
    ELSE games[g].timers > 0

\* C32: a countdown started for a game that has since ended never resolves a
\* phase of, eliminates a participant of, or otherwise changes a later game
\* of the same room.
C32_StaleTimerHarmless ==
    [][\A g \in DOMAIN games :
          (games[g].ended /\ Ticked(g))
          => /\ last'.res.g \in {0, g}
             /\ rooms' = rooms
             /\ \A h \in (DOMAIN games \cap DOMAIN games') \ {g} : games'[h] = games[h]]_vars

\* C33: the nickname index and the user table agree on every open
\* connection: usersByNickname maps nickname n to the open connection c
\* exactly when users holds a record for c whose nickname is n.
C33_IndexMatchesUsers ==
    \A n \in RegNicks, c \in RegConns :
        connState[c] = "open"
        => ((n \in DOMAIN usersByNickname /\ usersByNickname[n] = c)
            <=> (c \in DOMAIN users /\ users[c].nickname = n))

\* C34: whenever a connection's currentRoom is set, the registry holds a
\* room with that id, and a leaveRoom of a bound connection clears its
\* binding.
C34_BindingNamesRoom ==
    \A c \in DOMAIN users :
        users[c].currentRoom # 0
        => /\ users[c].currentRoom \in DOMAIN rooms
           /\ rooms[users[c].currentRoom].registered
           /\ leaveRoom(RegWorld, c).users[c].currentRoom = 0

\* The pending actions the completion check of the step read: those the
\* resolution took, or those still pending when nothing was resolved.
SeenNext(g) == IF last'.res.kind = "none" THEN games'[g].actions ELSE last'.res.actions

\* Whether every required actor of the phase of game g has a pending action
\* among the actions seen.
Complete(g, seen) ==
    LET alive == AliveSet(World, g)
    IN  IF games[g].phase = "night"
        THEN \A p \in alive :
                RoleIn(World, g, p) \in MafiaRoles
                => \E k \in 1 .. Len(seen) : seen[k].player = p
        ELSE Cardinality({k \in 1 .. Len(seen) : seen[k].action = "vote"}) = Cardinality(alive)

Instances == {<<ph, dy>> : ph \in {"night", "day"}, dy \in 1 .. MaxDay} \ {<<"day", MaxDay>>}

\* Game g is attached to its room and is in phase instance inst.
ActiveIn(g, inst) ==
    /\ g \in DOMAIN games
    /\ rooms[games[g].roomId].registered
    /\ rooms[games[g].roomId].game = g
    /\ Instance(games[g]) = inst

\* Phase instance inst of game g has been resolved, or the game is over:
\* detached from its room and dropped.
ResolvedOrOver(g, inst) ==
    \/ g \notin DOMAIN games
    \/ rooms[games[g].roomId].game # g
    \/ inst \in DOMAIN games[g].resolved

\* C36: while a game is attached to its room, every phase instance it enters
\* is eventually resolved, whether or not anybody submits an action, and
\* after a resolution that decided no winner a countdown of the game is
\* running.
C36_PhaseEventuallyResolved ==
    /\ \A g \in GameIds : \A inst \in Instances :
          ActiveIn(g, inst) ~> ResolvedOrOver(g, inst)
    /\ [](\A g \in DOMAIN games :
             (Res.kind # "none" /\ Res.g = g /\ games[g].decided = NULL) => games[g].timers > 0)

\* C36 witness: the countdown of the first day expired with nobody having
\* voted, the day was resolved by it and the second night is counted down.
C36_Witness ==
    /\ Res.kind = "day" /\ Res.actions = <<>> /\ Res.day = 1
    /\ ResGame.phase = "night" /\ ResGame.day = 2
    /\ ResGame.timers > 0

\* C37: the roster of a room never holds more participants than the room's
\* maxPlayers.
C37_RosterWithinCapacity ==
    \A r \in DOMAIN rooms : Len(rooms[r].players) <= rooms[r].maxPlayers

\* C37 witness: a room is full while a joinRoom call for it is suspended.
C37_Witness ==
    \E t \in BagToSet(tasks) :
        /\ t.op = "join"
        /\ rooms[t.roomId].registered
        /\ Len(rooms[t.roomId].players) = rooms[t.roomId].maxPlayers

\* The roster positions of a room that are flagged as owner.
Owners(room) == {k \in 1 .. Len(room.players) : room.players[k].isCreator}

\* C38: every room of the registry has a non-empty roster in which exactly
\* one participant is flagged as owner, and room.creator is the nickname of
\* that participant.
C38_OneOwner ==
    \A r \in DOMAIN rooms :
        rooms[r].registered
        => /\ Len(rooms[r].players) > 0
           /\ Cardinality(Owners(rooms[r])) = 1
           /\ \A k \in Owners(rooms[r]) : rooms[r].players[k].nickname = rooms[r].creator

\* C38 witness: the owner of a room with two participants is bound to it, and
\* its leaveRoom leaves the room in the registry with the other participant
\* as its one owner.
C38_Witness ==
    \E ws \in DOMAIN users :
        /\ users[ws].currentRoom \in DOMAIN rooms
        /\ LET r == users[ws].currentRoom
               left == leaveRoom(RegWorld, ws).rooms[r]
           IN  /\ rooms[r].registered
               /\ Len(rooms[r].players) = 2
               /\ rooms[r].creator = users[ws].nickname
               /\ rooms[r].players[2].nickname # users[ws].nickname
               /\ left.registered
               /\ left.creator = rooms[r].players[2].nickname
               /\ left.players = << [nickname |-> left.creator, isCreator |-> TRUE] >>

\* The world in which the only pending action of the game of room r is verb
\* from sender p at target t.
WithOnly(r, p, verb, t) ==
    [World EXCEPT !.games[rooms[r].game].actions =
                     << [player |-> p, action |-> verb, target |-> t, timestamp |-> 0] >>]

\* The targets that can eliminate no one in the game of room r: its dead
\* participants and the identities that are not among its participants.
Untouchable(r) ==
    (SeqToSet(games[rooms[r].game].players) \cup Outsiders) \ AliveSet(World, rooms[r].game)

\* C39: while a game runs no participant turns from dead to alive; one phase
\* resolution turns at most one living participant dead; and a resolution
\* whose kills or votes all name dead participants or identities outside the
\* game eliminates no one.
C39_EliminationsSound ==
    /\ [][\A r \in DOMAIN rooms :
             (rooms[r].game # 0 /\ rooms'[r].game = rooms[r].game)
             => \A n \in SeqToSet(games[rooms[r].game].players) :
                   ~rooms[r].obj[n].isAlive => ~rooms'[r].obj[n].isAlive]_vars
    /\ [](/\ Res.kind # "none" => Cardinality(ResDied) <= 1
          /\ (Res.kind # "none"
              /\ \A k \in 1 .. Len(Res.actions) : Res.actions[k].target \notin Res.alive)
             => ResDied = {}
          /\ \A r \in DOMAIN rooms :
                (rooms[r].registered /\ rooms[r].game # 0)
                => \A p \in SeqToSet(games[rooms[r].game].players), t \in Untouchable(r) :
                      /\ AliveFlags(processNightActions(WithOnly(r, p, "kill", t), r).rooms, r)
                            = AliveFlags(rooms, r)
                      /\ AliveFlags(processDayVoting(WithOnly(r, p, "vote", t), r).rooms, r)
                            = AliveFlags(rooms, r))

\* C39 witness: a day was resolved whose votes all named a participant who
\* was already dead, and nobody was eliminated.
C39_Witness ==
    /\ Res.kind = "day"
    /\ Len(Res.actions) >= 2
    /\ \A k \in 1 .. Len(Res.actions) :
          /\ Res.actions[k].target \in SeqToSet(ResGame.players)
          /\ Res.actions[k].target \notin Res.alive
    /\ ResDied = {}

----------------------------------------------------------------------------
(* Harness of distributeRoles: every playerCount and role configuration.   *)

InitRoles ==
    /\ EngineIdle
    /\ \E n \in MinRoster .. MaxRoster, s \in RoleSettings :
          dr = [n |-> n, settings |-> s, roles |-> <<>>, done |-> FALSE]
    /\ we = WeIdle

Distribute ==
    /\ ~dr.done
    /\ \E rnd \in Draws(dr.n) :
          dr' = [dr EXCEPT !.roles = distributeRoles(dr.n, dr.settings, rnd), !.done = TRUE]
    /\ UNCHANGED <<we, engineVars, regVars>>

NextRoles == Distribute

SpecRoles == InitRoles /\ [][NextRoles]_vars

MafiaTypeCount(roles) == CountRole(roles, "don") + CountRole(roles, "mafia")

\* C10: for every playerCount from 4 to 12 and every role configuration,
\* distributeRoles returns exactly playerCount roles: one don, mafia-type
\* roles totalling floor(playerCount / 3), one doctor iff doctor is enabled
\* and playerCount >= 5, the two lover roles iff lovers is enabled and
\* playerCount >= 6, and citizen in every remaining slot.
C10_RoleQuota ==
    dr.done =>
        LET hasDoctor == dr.settings.doctor /\ dr.n >= 5
            hasLovers == dr.settings.lovers /\ dr.n >= 6
            special == (dr.n \div 3) + (IF hasDoctor THEN 1 ELSE 0) + (IF hasLovers THEN 2 ELSE 0)
        IN  /\ Len(dr.roles) = dr.n
            /\ CountRole(dr.roles, "don") = 1
            /\ MafiaTypeCount(dr.roles) = dr.n \div 3
            /\ CountRole(dr.roles, "doctor") = (IF hasDoctor THEN 1 ELSE 0)
            /\ CountRole(dr.roles, "lover1") = (IF hasLovers THEN 1 ELSE 0)
            /\ CountRole(dr.roles, "lover2") = (IF hasLovers THEN 1 ELSE 0)
            /\ CountRole(dr.roles, "citizen") = dr.n - special

RoleNames == {"don", "mafia", "doctor", "lover1", "lover2", "citizen"}

\* C11: the shuffle of distributeRoles is a permutation: for every sequence
\* of random index choices the multiset of roles after the shuffle equals the
\* multiset before it, and each roster position 1..playerCount holds exactly
\* one role.
C11_ShufflePermutes ==
    dr.done =>
        LET before == BuildRoles(dr.n, dr.settings)
        IN  /\ DOMAIN dr.roles = 1 .. dr.n
            /\ \A k \in 1 .. dr.n : dr.roles[k] \in RoleNames
            /\ \A r \in RoleNames : CountRole(dr.roles, r) = CountRole(before, r)

\* C11 witness: a shuffle of a list with the lover roles moved the don away
\* from the first position.
C11_Witness ==
    /\ dr.done
    /\ dr.n >= 6 /\ dr.settings.lovers
    /\ dr.roles[1] # "don"
    /\ CountRole(dr.roles, "lover1") = 1

\* C10 witness: 5 players with doctor on and lovers off were given 1 don,
\* 1 doctor and 3 citizens, not in the order the list was built in.
C10_Witness ==
    /\ dr.done
    /\ dr.n = 5 /\ dr.settings.doctor /\ ~dr.settings.lovers
    /\ CountRole(dr.roles, "don") = 1
    /\ CountRole(dr.roles, "doctor") = 1
    /\ CountRole(dr.roles, "citizen") = 3
    /\ dr.roles # BuildRoles(5, dr.settings)

----------------------------------------------------------------------------
(* Harness of the win evaluation: a roster with distributed roles, whose   *)
(* members are eliminated one at a time while no winner is decided.        *)

InitWin ==
    /\ EngineIdle
    /\ dr = DrIdle
    /\ \E n \in MinRoster .. MaxWinRoster, s \in RoleSettings :
        \E rnd \in Draws(n) :
          we = [roles |-> distributeRoles(n, s, rnd), alive |-> 1 .. n,
                winner |-> NULL, evaluated |-> FALSE]

WeRoleOf == [k \in 1 .. Len(we.roles) |-> we.roles[k]]
WeAliveOf == [k \in 1 .. Len(we.roles) |-> k \in we.alive]

Evaluate ==
    /\ ~we.evaluated
    /\ we' = [we EXCEPT !.winner = Winner(1 .. Len(we.roles), WeRoleOf, WeAliveOf),
                        !.evaluated = TRUE]
    /\ UNCHANGED <<dr, engineVars, regVars>>

Eliminate ==
    /\ we.evaluated
    /\ we.winner = NULL
    /\ \E p \in we.alive :
          we' = [we EXCEPT !.alive = @ \ {p}, !.evaluated = FALSE]
    /\ UNCHANGED <<dr, engineVars, regVars>>

NextWin == Evaluate \/ Eliminate

SpecWin == InitWin /\ [][NextWin]_vars

WeAlive(kinds) == {k \in we.alive : we.roles[k] \in kinds}

\* C8: win evaluation over the living participants returns citizens when
\* the living mafia-type count is 0, otherwise mafia when the living
\* mafia-type count is at least the living town-type count (a tie is a mafia
\* win), otherwise no winner.
C8_WinEvaluation ==
    we.evaluated =>
        LET m == Cardinality(WeAlive(MafiaRoles))
            t == Cardinality(WeAlive(TownRoles))
        IN  /\ (m = 0) => we.winner = "citizens"
            /\ (m > 0 /\ m >= t) => we.winner = "mafia"
            /\ (m > 0 /\ m < t) => we.winner = NULL

\* C8 witness: a tie of living mafia-type and town-type players, reached by
\* eliminations, was evaluated as a mafia win.
C8_Witness ==
    /\ we.evaluated
    /\ Cardinality(we.alive) < Len(we.roles)
    /\ Cardinality(WeAlive(MafiaRoles)) > 0
    /\ Cardinality(WeAlive(MafiaRoles)) = Cardinality(WeAlive(TownRoles))
    /\ we.winner = "mafia"

\* C29: win evaluation partitions the living participants: for every role
\* assignment of distributeRoles, the living mafia-type count plus the
\* living town-type count it compares equals the number of living
\* participants.
C29_WinPartition ==
    we.evaluated =>
        Cardinality(WeAlive(MafiaRoles)) + Cardinality(WeAlive(TownRoles))
            = Cardinality(we.alive)

====
